---------------------------- MODULE Spec2Model ----------------------------
(***************************************************************************)
(* Person/Mistakes API (src/main.py, src/models/mistake.py,                *)
(* src/models/person.py): two in-memory stores, each a Python dict keyed   *)
(* by UUID, and the FastAPI handlers that create, list, get, patch and     *)
(* delete their records.                                                   *)
(*                                                                         *)
(* A JSON body and a Python dict are modelled as a TLA+ function from key  *)
(* names to values; a key that is absent is absent from the DOMAIN.  A     *)
(* dict (insertion ordered) is a sequence of [key, val] entries.  UUIDs    *)
(* are small naturals, datetimes are readings of the integer clock `now`,  *)
(* JSON null / Python None is the string None.                             *)
(*                                                                         *)
(* As committed, person.py does not import: line 16 lacks a comma and      *)
(* Literal (line 11) is never imported, and models/health.py is absent.    *)
(* The model is of the handlers and the pydantic models as they read once  *)
(* the module imports; every field keeps the name the source gives it.     *)
(***************************************************************************)
EXTENDS Integers, Sequences, FiniteSets, TLC

VARIABLES
    mistakes,   \* main.py:22, the dict of stored MistakeRead models
    persons,    \* main.py:21, the dict of stored PersonRead models
    now,        \* the server clock that datetime.utcnow reads
    resp,       \* the last request handled and the response it got
    lastWrite,  \* history: per Mistake id, the body of its last 201 / 200 write
    deleted,    \* history: Mistake ids deleted (204) and not created since
    threads,    \* the threadpool: per worker thread, the handler it is inside
    written     \* history: the records the threads have assigned into mistakes

vars == <<mistakes, persons, now, resp, lastWrite, deleted, threads, written>>

---------------------------------------------------------------------------
(* Bounds of the model *)

MaxClock == 2
MaxMistakeId == 2
MaxPersonId == 2
MaxThreads == 2

MistakeIds == 1..MaxMistakeId
PersonIds == 1..MaxPersonId
Threads == 1..MaxThreads

None == "<None>"

---------------------------------------------------------------------------
(* Python dict, insertion ordered *)

Range(s) == {s[i] : i \in 1..Len(s)}

Keys(d) == {d[i].key : i \in 1..Len(d)}

Values(d) == [i \in 1..Len(d) |-> d[i].val]

Lookup(d, k) == (CHOOSE e \in Range(d) : e.key = k).val

\* d[k] = v : an existing key keeps its position, a new key goes last
DictSet(d, k, v) ==
    IF k \in Keys(d)
    THEN [i \in 1..Len(d) |-> IF d[i].key = k THEN [key |-> k, val |-> v] ELSE d[i]]
    ELSE Append(d, [key |-> k, val |-> v])

\* mutant: d.popitem() in the place of del d[k]
DictPopItem(d, k) == SubSeq(d, 1, Len(d) - 1)

\* del d[k]
DictDel(d, k) == SelectSeq(d, LAMBDA e : e.key # k)

\* dict.update(other) on plain dicts (functions)
DictUpdate(stored, other) ==
    [f \in DOMAIN stored \cup DOMAIN other |->
        IF f \in DOMAIN other THEN other[f] ELSE stored[f]]

\* the dict restricted to a set of keys
Restrict(d, ks) == [f \in DOMAIN d \cap ks |-> d[f]]

Min(a, b) == IF a <= b THEN a ELSE b

---------------------------------------------------------------------------
(* models/mistake.py *)

TextFields ==
    {"subject", "key_concept", "prompt", "correct_answer", "wrong_answer", "reflection"}

MistakeBaseFields == {"id"} \cup TextFields

MistakeReadFields == MistakeBaseFields \cup {"created_at", "updated_at"}

\* a required `str` field: present and not null
RequiredStrOk(d, f) == f \in DOMAIN d /\ d[f] # None

\* MistakeBase / MistakeCreate validation of a body; uuid is what uuid4() returns
\* if the default factory of id runs.  Unknown keys are dropped.
MistakeBaseValid(d) == \A f \in TextFields : RequiredStrOk(d, f)

MistakeBase(d, uuid) ==
    [f \in MistakeBaseFields |->
        IF f = "id" THEN (IF "id" \in DOMAIN d THEN d.id ELSE uuid) ELSE d[f]]

\* MistakeUpdate validation: six Optional[str] fields, unknown keys dropped;
\* model_dump(exclude_unset=True) is then the fields the body set.
MistakeUpdateDump(d) == Restrict(d, TextFields)

\* MistakeRead(**d): t1, t2 are the two readings of datetime.utcnow taken by the
\* default factories of created_at and updated_at, used only if d lacks the key.
\* mutant: the model is built without validating its text fields
MistakeReadUnvalidated(d) == "id" \in DOMAIN d

MistakeReadValid(d) == "id" \in DOMAIN d /\ MistakeBaseValid(d)

\* mutant: created_at is stamped anew whenever the model is built
MistakeReadRestamped(d, t1, t2) ==
    [f \in MistakeReadFields |->
        IF f = "created_at" THEN t1
        ELSE IF f = "updated_at" THEN (IF f \in DOMAIN d THEN d[f] ELSE t2)
        ELSE d[f]]

MistakeRead(d, t1, t2) ==
    [f \in MistakeReadFields |->
        IF f = "created_at" THEN (IF f \in DOMAIN d THEN d[f] ELSE t1)
        ELSE IF f = "updated_at" THEN (IF f \in DOMAIN d THEN d[f] ELSE t2)
        ELSE d[f]]

\* model_dump() of a model: the dict of the fields the model declares
ModelDump(m, fields) == [f \in fields |-> m[f]]

---------------------------------------------------------------------------
(* models/person.py *)

GradeLevels == {"K-5", "6-8", "9-12", "Undergrad", "Graduate", "Adult", "Other"}

\* EmailStr and date accept the well-formed strings; of the strings the model
\* sends, these are the well-formed ones
EmailOk(v) == v \in {"ada@example.com", "susanlee@gmail.com"}

DateOk(v) == v \in {"1998-06-10"}

\* str(p.birth_date): the ISO form of a date, "None" of None
DateStr(v) == IF v = None THEN "None" ELSE v

PersonBaseFields ==
    {"first_name", "last_name", "email", "birth_date", "grade_level", "mistake"}

PersonReadFields == PersonBaseFields \cup {"id", "created_at", "updated_at"}

\* the uuid4() results a List[MistakeBase] needs: one per entry that has no
\* id (an entry that has one stands in with it)
EntryUuids(entries) ==
    {u \in [1..Len(entries) -> MistakeIds] :
        \A i \in 1..Len(entries) : "id" \in DOMAIN entries[i] => u[i] = entries[i].id}

MistakeBaseList(entries, uuids) ==
    [i \in 1..Len(entries) |-> MistakeBase(entries[i], uuids[i])]

MistakeListValid(d) ==
    "mistake" \in DOMAIN d =>
        \A i \in 1..Len(d.mistake) : MistakeBaseValid(d.mistake[i])

\* PersonBase / PersonCreate / PersonRead validation of a body or a dict
PersonBaseValid(d) ==
    /\ RequiredStrOk(d, "first_name")
    /\ RequiredStrOk(d, "last_name")
    /\ RequiredStrOk(d, "email") /\ EmailOk(d.email)
    /\ "birth_date" \in DOMAIN d => (d.birth_date = None \/ DateOk(d.birth_date))
    /\ "grade_level" \in DOMAIN d =>
           (d.grade_level = None \/ d.grade_level \in GradeLevels)
    /\ MistakeListValid(d)

\* the validated model: defaults for the keys the body lacks, unknown keys dropped
PersonBase(d, uuids) ==
    [f \in PersonBaseFields |->
        IF f = "mistake"
        THEN (IF f \in DOMAIN d THEN MistakeBaseList(d.mistake, uuids) ELSE <<>>)
        ELSE IF f \in DOMAIN d THEN d[f] ELSE None]

\* the entries of the body's "mistake" list, none if the key is not set
BodyEntries(d) == IF "mistake" \in DOMAIN d THEN d.mistake ELSE <<>>

\* PersonUpdate validation: grade_level is Optional[str], any string passes
PersonUpdateValid(d) ==
    /\ "email" \in DOMAIN d => (d.email = None \/ EmailOk(d.email))
    /\ "birth_date" \in DOMAIN d => (d.birth_date = None \/ DateOk(d.birth_date))
    /\ MistakeListValid(d)

\* PersonUpdate(...).model_dump(exclude_unset=True)
PersonUpdateDump(d, uuids) ==
    [f \in DOMAIN d \cap PersonBaseFields |->
        IF f = "mistake" THEN MistakeBaseList(d.mistake, uuids) ELSE d[f]]

\* PersonRead(**d): uuid, t1, t2 are what the default factories of id,
\* created_at and updated_at return, used only if d lacks the key
\* mutant: grade_level is taken as the Optional[str] PersonUpdate declares
PersonReadAnyGrade(d) ==
    /\ RequiredStrOk(d, "first_name")
    /\ RequiredStrOk(d, "last_name")
    /\ RequiredStrOk(d, "email") /\ EmailOk(d.email)
    /\ "birth_date" \in DOMAIN d => (d.birth_date = None \/ DateOk(d.birth_date))
    /\ MistakeListValid(d)

PersonReadValid(d) == PersonBaseValid(d)

\* mutant: the two stamps are taken in the reverse order
PersonReadSwapped(d, uuid, t1, t2) ==
    [f \in PersonReadFields |->
        IF f = "id" THEN (IF f \in DOMAIN d THEN d[f] ELSE uuid)
        ELSE IF f = "created_at" THEN (IF f \in DOMAIN d THEN d[f] ELSE t2)
        ELSE IF f = "updated_at" THEN (IF f \in DOMAIN d THEN d[f] ELSE t1)
        ELSE PersonBase(d, [i \in 1..Len(BodyEntries(d)) |-> d.mistake[i].id])[f]]

PersonRead(d, uuid, t1, t2) ==
    [f \in PersonReadFields |->
        IF f = "id" THEN (IF f \in DOMAIN d THEN d[f] ELSE uuid)
        ELSE IF f = "created_at" THEN (IF f \in DOMAIN d THEN d[f] ELSE t1)
        ELSE IF f = "updated_at" THEN (IF f \in DOMAIN d THEN d[f] ELSE t2)
        ELSE PersonBase(d, [i \in 1..Len(BodyEntries(d)) |-> d.mistake[i].id])[f]]

---------------------------------------------------------------------------
(* Responses *)

Response(op, id, req, status, body) ==
    [op |-> op, id |-> id, req |-> req, status |-> status, body |-> body]

\* the id of a response to a request that names none: the nil UUID
NoId == 0

\* the clock can advance between two readings of datetime.utcnow
ClockAfter(t) == t..Min(t + 1, MaxClock)

\* a worker thread of the threadpool that is inside no handler
Idle == [pc |-> "idle", id |-> NoId, req |-> None, local |-> None]

---------------------------------------------------------------------------
(* Requests the model sends to the Mistake endpoints *)

BodyA ==
    [subject |-> "lsat", key_concept |-> "Logical Reasoning", prompt |-> "q1",
     correct_answer |-> "D", wrong_answer |-> "A", reflection |-> "r1"]

BodyB ==
    [subject |-> "gre", key_concept |-> "Logical Reasoning", prompt |-> "q2",
     correct_answer |-> "C", wrong_answer |-> "A", reflection |-> "r2"]

WithId(body, id) == body @@ [id |-> id]

\* POST /mistakes bodies: without an id and with one, one with a key the model
\* does not declare, one with a required field missing, one with it null
MistakeCreateBodies ==
    { BodyA, WithId(BodyB, 1), WithId(BodyA, 2),
      WithId(BodyB, 1) @@ [created_at |-> 0],
      Restrict(BodyA, TextFields \ {"reflection"}),
      [BodyA EXCEPT !.subject = None] }

\* PATCH /mistakes/{id} bodies: empty, one field, a null, keys the model does
\* not declare
MistakeUpdateBodies ==
    { <<>>,
      [subject |-> "LSAT"],
      [subject |-> None],
      [id |-> 2, created_at |-> 0, key_concept |-> "Reading Comprehension"] }

\* GET /mistakes query strings
MistakeFilters ==
    { <<>>,
      [subject |-> "lsat"], [subject |-> "gre"],
      [key_concept |-> "Logical Reasoning"], [prompt |-> "q1"],
      [correct_answer |-> "C"], [wrong_answer |-> "A"], [reflection |-> "r2"],
      [subject |-> "lsat", key_concept |-> "Reading Comprehension"] }

---------------------------------------------------------------------------
(* main.py: Mistake endpoints *)

\* what uuid4() can return when the default factory of id runs
\* (none is drawn when the body carries an id: the id stands in)
Uuid4(body, ids, used) == IF "id" \in DOMAIN body THEN {body.id} ELSE ids \ used

\* mutant: the membership test of create_mistake never finds the id
MistakeIdExistsNever(d, id) == FALSE

\* `mistake.id in mistakes`
MistakeIdExists(d, id) == id \in Keys(d)

create_mistake(body) ==
    IF ~MistakeBaseValid(body)
    THEN /\ resp' = Response("create_mistake", NoId, body, 422, None)
         /\ UNCHANGED <<mistakes, persons, now, lastWrite, deleted, threads, written>>
    ELSE \E uuid \in Uuid4(body, MistakeIds, Keys(mistakes)) :
         LET mistake == MistakeBase(body, uuid) IN
         IF MistakeIdExists(mistakes, mistake.id)
         THEN /\ resp' = Response("create_mistake", mistake.id, body, 400, None)
              /\ UNCHANGED <<mistakes, persons, now, lastWrite, deleted, threads, written>>
         ELSE \E t2 \in ClockAfter(now) :
              /\ mistakes' = DictSet(mistakes, mistake.id,
                                     MistakeRead(ModelDump(mistake, MistakeBaseFields), now, t2))
              /\ now' = t2
              /\ resp' = Response("create_mistake", mistake.id, body, 201,
                                  Lookup(mistakes', mistake.id))
              /\ lastWrite' = (mistake.id :> resp'.body) @@ lastWrite
              /\ deleted' = deleted \ {mistake.id}
              /\ UNCHANGED <<persons, threads, written>>

\* mutant: the comparison folds case
Lower(v) == IF v = "LSAT" THEN "lsat" ELSE v

FilterByFold(results, filters, f) ==
    IF f \in DOMAIN filters
    THEN SelectSeq(results, LAMBDA a : Lower(a[f]) = Lower(filters[f]))
    ELSE results

\* one `if f is not None: results = [a for a in results if a.f == f]`
FilterBy(results, filters, f) ==
    IF f \in DOMAIN filters
    THEN SelectSeq(results, LAMBDA a : a[f] = filters[f])
    ELSE results

ListMistakes(d, filters) ==
    LET r0 == Values(d)
        r1 == FilterBy(r0, filters, "subject")
        r2 == FilterBy(r1, filters, "key_concept")
        r3 == FilterBy(r2, filters, "prompt")
        r4 == FilterBy(r3, filters, "correct_answer")
        r5 == FilterBy(r4, filters, "wrong_answer")
    IN  FilterBy(r5, filters, "reflection")

list_mistakes(filters) ==
    /\ resp' = Response("list_mistakes", NoId, filters, 200, ListMistakes(mistakes, filters))
    /\ UNCHANGED <<mistakes, persons, now, lastWrite, deleted, threads, written>>

get_mistakes(mistakes_id) ==
    /\ resp' = IF mistakes_id \notin Keys(mistakes)
               THEN Response("get_mistakes", mistakes_id, None, 404, None)
               ELSE Response("get_mistakes", mistakes_id, None, 200,
                             Lookup(mistakes, mistakes_id))
    /\ UNCHANGED <<mistakes, persons, now, lastWrite, deleted, threads, written>>

\* mutant: the patched model is returned and never stored
update_mistake_unstored(mistakes_id, body) ==
    IF mistakes_id \notin Keys(mistakes)
    THEN /\ resp' = Response("update_mistake", mistakes_id, body, 404, None)
         /\ UNCHANGED <<mistakes, persons, now, lastWrite, deleted, threads, written>>
    ELSE LET stored == DictUpdate(ModelDump(Lookup(mistakes, mistakes_id), MistakeReadFields),
                                  MistakeUpdateDump(body))
         IN  IF ~MistakeReadValid(stored)
             THEN /\ resp' = Response("update_mistake", mistakes_id, body, 500, None)
                  /\ UNCHANGED <<mistakes, persons, now, lastWrite, deleted, threads, written>>
             ELSE /\ resp' = Response("update_mistake", mistakes_id, body, 200,
                                      MistakeRead(stored, now, now))
                  /\ lastWrite' = (mistakes_id :> resp'.body) @@ lastWrite
                  /\ UNCHANGED <<mistakes, persons, now, deleted, threads, written>>

update_mistake(mistakes_id, body) ==
    IF mistakes_id \notin Keys(mistakes)
    THEN /\ resp' = Response("update_mistake", mistakes_id, body, 404, None)
         /\ UNCHANGED <<mistakes, persons, now, lastWrite, deleted, threads, written>>
    ELSE LET stored == DictUpdate(ModelDump(Lookup(mistakes, mistakes_id), MistakeReadFields),
                                  MistakeUpdateDump(body))
         IN  IF ~MistakeReadValid(stored)
             THEN \* pydantic's ValidationError escapes the handler
                  /\ resp' = Response("update_mistake", mistakes_id, body, 500, None)
                  /\ UNCHANGED <<mistakes, persons, now, lastWrite, deleted, threads, written>>
             ELSE \* stored carries created_at and updated_at: no clock is read
                  /\ mistakes' = DictSet(mistakes, mistakes_id, MistakeRead(stored, now, now))
                  /\ resp' = Response("update_mistake", mistakes_id, body, 200,
                                      Lookup(mistakes', mistakes_id))
                  /\ lastWrite' = (mistakes_id :> resp'.body) @@ lastWrite
                  /\ UNCHANGED <<persons, now, deleted, threads, written>>

delete_mistake(mistakes_id) ==
    IF mistakes_id \notin Keys(mistakes)
    THEN /\ resp' = Response("delete_mistake", mistakes_id, None, 404, None)
         /\ UNCHANGED <<mistakes, persons, now, lastWrite, deleted, threads, written>>
    ELSE /\ mistakes' = DictDel(mistakes, mistakes_id)
         /\ resp' = Response("delete_mistake", mistakes_id, None, 204, None)
         /\ lastWrite' = [k \in DOMAIN lastWrite \ {mistakes_id} |-> lastWrite[k]]
         /\ deleted' = deleted \cup {mistakes_id}
         /\ UNCHANGED <<persons, now, threads, written>>

\* the server clock read by datetime.utcnow advances
Tick ==
    /\ now < MaxClock
    /\ now' = now + 1
    /\ UNCHANGED <<mistakes, persons, resp, lastWrite, deleted, threads, written>>

---------------------------------------------------------------------------
(* Requests the model sends to the Person endpoints *)

\* an embedded entry as the specification's scenario writes it: grade_level
\* is a key MistakeBase does not declare
EntryL == WithId(BodyA, 1) @@ [grade_level |-> "9-12"]

PersonAda == [first_name |-> "Ada", last_name |-> "Smith", email |-> "ada@example.com"]

PersonSusan ==
    [first_name |-> "Susan", last_name |-> "Lee", email |-> "susanlee@gmail.com",
     birth_date |-> "1998-06-10", grade_level |-> "9-12", mistake |-> <<EntryL>>]

\* POST /persons bodies: the third holds an entry without id and two keys
\* PersonCreate does not declare, the fourth the grade_level of the example in
\* person.py, the last a malformed email
PersonCreateBodies ==
    { PersonAda, PersonSusan,
      PersonAda @@ [mistake |-> <<BodyB>>, mistakes |-> <<EntryL>>, id |-> 2],
      [PersonSusan EXCEPT !.grade_level = "undergraduate"],
      [PersonAda EXCEPT !.email = "ada-at-example"] }

\* PATCH /persons/{id} bodies
PersonUpdateBodies ==
    { <<>>,
      [first_name |-> "Augusta", id |-> 2],
      [mistake |-> <<WithId(BodyB, 2)>>],
      [mistakes |-> <<EntryL>>],
      [grade_level |-> "undergraduate"],
      [email |-> "ada-at-example"] }

\* GET /persons query strings
PersonFilters ==
    { <<>>,
      [first_name |-> "Ada"], [last_name |-> "Lee", email |-> "susanlee@gmail.com"],
      [birth_date |-> "1998-06-10"],
      [grade_level |-> "9-12"], [subject |-> "lsat"],
      [first_name |-> "Nobody", grade_level |-> "9-12"] }

---------------------------------------------------------------------------
(* main.py: Person endpoints *)

create_person(body) ==
    IF ~PersonBaseValid(body)
    THEN /\ resp' = Response("create_person", NoId, body, 422, None)
         /\ UNCHANGED <<mistakes, persons, now, lastWrite, deleted, threads, written>>
    ELSE \E uuids \in EntryUuids(BodyEntries(body)),
            uuid \in PersonIds \ Keys(persons),
            t2 \in ClockAfter(now) :
         LET person == PersonBase(body, uuids)
             person_read == PersonRead(ModelDump(person, PersonBaseFields), uuid, now, t2)
         IN  /\ persons' = DictSet(persons, person_read.id, person_read)
             /\ now' = t2
             /\ resp' = Response("create_person", person_read.id, body, 201, person_read)
             /\ UNCHANGED <<mistakes, lastWrite, deleted, threads, written>>

\* any(mistake.attr == v for mistake in p.mistakes) raises AttributeError:
\* p has no attribute "mistakes", or an entry any() reaches has no attr
AnyRaises(p, attr, v) ==
    \/ "mistakes" \notin DOMAIN p
    \/ \E i \in 1..Len(p.mistakes) :
          /\ attr \notin DOMAIN p.mistakes[i]
          /\ \A j \in 1..(i - 1) : p.mistakes[j][attr] # v

AnyMatches(p, attr, v) == \E i \in 1..Len(p.mistakes) : p.mistakes[i][attr] = v

\* one nested filter: [p for p in results if any(...)]
NestedRaises(results, filters, attr) ==
    /\ attr \in DOMAIN filters
    /\ \E i \in 1..Len(results) : AnyRaises(results[i], attr, filters[attr])

NestedFilterBy(results, filters, attr) ==
    IF attr \in DOMAIN filters
    THEN SelectSeq(results, LAMBDA p : AnyMatches(p, attr, filters[attr]))
    ELSE results

\* the results of list_persons, or the exception that ends it
ListPersons(d, filters) ==
    LET r0 == Values(d)
        r1 == FilterBy(r0, filters, "first_name")
        r2 == FilterBy(r1, filters, "last_name")
        r3 == FilterBy(r2, filters, "email")
        r4 == IF "birth_date" \in DOMAIN filters
              THEN SelectSeq(r3, LAMBDA p : DateStr(p.birth_date) = filters.birth_date)
              ELSE r3
    IN  IF NestedRaises(r4, filters, "grade_level")
        THEN [raised |-> TRUE, results |-> <<>>]
        ELSE LET r5 == NestedFilterBy(r4, filters, "grade_level") IN
             IF NestedRaises(r5, filters, "subject")
             THEN [raised |-> TRUE, results |-> <<>>]
             ELSE [raised |-> FALSE, results |-> NestedFilterBy(r5, filters, "subject")]

list_persons(filters) ==
    /\ resp' = LET r == ListPersons(persons, filters) IN
               IF r.raised
               THEN Response("list_persons", NoId, filters, 500, None)
               ELSE Response("list_persons", NoId, filters, 200, r.results)
    /\ UNCHANGED <<mistakes, persons, now, lastWrite, deleted, threads, written>>

get_person(person_id) ==
    /\ resp' = IF person_id \notin Keys(persons)
               THEN Response("get_person", person_id, None, 404, None)
               ELSE Response("get_person", person_id, None, 200, Lookup(persons, person_id))
    /\ UNCHANGED <<mistakes, persons, now, lastWrite, deleted, threads, written>>

update_person(person_id, body) ==
    IF ~PersonUpdateValid(body)
    THEN /\ resp' = Response("update_person", person_id, body, 422, None)
         /\ UNCHANGED <<mistakes, persons, now, lastWrite, deleted, threads, written>>
    ELSE IF person_id \notin Keys(persons)
    THEN /\ resp' = Response("update_person", person_id, body, 404, None)
         /\ UNCHANGED <<mistakes, persons, now, lastWrite, deleted, threads, written>>
    ELSE \E uuids \in EntryUuids(BodyEntries(body)) :
         LET stored == DictUpdate(ModelDump(Lookup(persons, person_id), PersonReadFields),
                                  PersonUpdateDump(body, uuids))
         IN  IF ~PersonReadValid(stored)
             THEN \* pydantic's ValidationError escapes the handler
                  /\ resp' = Response("update_person", person_id, body, 500, None)
                  /\ UNCHANGED <<mistakes, persons, now, lastWrite, deleted, threads, written>>
             ELSE \* stored carries id, created_at and updated_at: no clock is read
                  /\ persons' = DictSet(persons, person_id, PersonRead(stored, person_id, now, now))
                  /\ resp' = Response("update_person", person_id, body, 200,
                                      Lookup(persons', person_id))
                  /\ UNCHANGED <<mistakes, now, lastWrite, deleted, threads, written>>

\* mutant: persons.pop(person_id, None) without the membership test
delete_person_pop(person_id) ==
    /\ persons' = DictDel(persons, person_id)
    /\ resp' = Response("delete_person", person_id, None, 204, None)
    /\ UNCHANGED <<mistakes, now, lastWrite, deleted, threads, written>>

delete_person(person_id) ==
    IF person_id \notin Keys(persons)
    THEN /\ resp' = Response("delete_person", person_id, None, 404, None)
         /\ UNCHANGED <<mistakes, persons, now, lastWrite, deleted, threads, written>>
    ELSE /\ persons' = DictDel(persons, person_id)
         /\ resp' = Response("delete_person", person_id, None, 204, None)
         /\ UNCHANGED <<mistakes, now, lastWrite, deleted, threads, written>>

---------------------------------------------------------------------------
(* Specifications *)

Init ==
    /\ mistakes = <<>>
    /\ persons = <<>>
    /\ now = 0
    /\ resp = Response("root", NoId, None, 200, None)
    /\ lastWrite = <<>>
    /\ deleted = {}
    /\ threads = [t \in Threads |-> Idle]
    /\ written = {}

CreateMistake == \E body \in MistakeCreateBodies : create_mistake(body)
ListMistakesReq == \E filters \in MistakeFilters : list_mistakes(filters)
GetMistake == \E id \in MistakeIds : get_mistakes(id)
UpdateMistake == \E id \in MistakeIds, body \in MistakeUpdateBodies : update_mistake(id, body)
DeleteMistake == \E id \in MistakeIds : delete_mistake(id)

NextMistake ==
    \/ CreateMistake
    \/ ListMistakesReq
    \/ GetMistake
    \/ UpdateMistake
    \/ DeleteMistake
    \/ Tick

SpecMistake == Init /\ [][NextMistake]_vars

CreatePerson == \E body \in PersonCreateBodies : create_person(body)
ListPersonsReq == \E filters \in PersonFilters : list_persons(filters)
GetPerson == \E id \in PersonIds : get_person(id)
UpdatePerson == \E id \in PersonIds, body \in PersonUpdateBodies : update_person(id, body)
DeletePerson == \E id \in PersonIds : delete_person(id)

NextPerson ==
    \/ CreatePerson
    \/ ListPersonsReq
    \/ GetPerson
    \/ UpdatePerson
    \/ DeletePerson
    \/ Tick

SpecPerson == Init /\ [][NextPerson]_vars

\* Both stores in one process.  The two stores multiply each other's states,
\* so each endpoint gets a few of the requests above and the process starts
\* with the clock at its bound, which leaves every stamp equal.
InitStores ==
    /\ mistakes = <<>>
    /\ persons = <<>>
    /\ now = MaxClock
    /\ resp = Response("root", NoId, None, 200, None)
    /\ lastWrite = <<>>
    /\ deleted = {}
    /\ threads = [t \in Threads |-> Idle]
    /\ written = {}

StoresMistakeUpdateBodies == {<<>>, [subject |-> "LSAT"]}

StoresPersonUpdateBodies == {<<>>, [mistake |-> <<WithId(BodyB, 2)>>]}

Next ==
    \/ \E body \in {BodyA, WithId(BodyB, 1)} : create_mistake(body)
    \/ list_mistakes(<<>>)
    \/ \E id \in MistakeIds : get_mistakes(id)
    \/ \E id \in MistakeIds, body \in StoresMistakeUpdateBodies : update_mistake(id, body)
    \/ \E id \in MistakeIds : delete_mistake(id)
    \/ \E body \in {PersonAda, PersonSusan} : create_person(body)
    \/ list_persons(<<>>)
    \/ \E id \in PersonIds : get_person(id)
    \/ \E id \in PersonIds, body \in StoresPersonUpdateBodies : update_person(id, body)
    \/ \E id \in PersonIds : delete_person(id)

Spec == InitStores /\ [][Next]_vars

\* Both stores in one process with the clock running: one create body, one
\* patch and the delete of each store, which is what stamps a record, carries
\* its stamps over and removes it.
ClockMistakeUpdateBodies == {[subject |-> "LSAT"]}

ClockPersonUpdateBodies == {[first_name |-> "Augusta", id |-> 2]}

NextClock ==
    \/ create_mistake(BodyA)
    \/ \E id \in MistakeIds, body \in ClockMistakeUpdateBodies : update_mistake(id, body)
    \/ \E id \in MistakeIds : delete_mistake(id)
    \/ create_person(PersonAda)
    \/ \E id \in PersonIds, body \in ClockPersonUpdateBodies : update_person(id, body)
    \/ \E id \in PersonIds : delete_person(id)
    \/ Tick

SpecClock == Init /\ [][NextClock]_vars

---------------------------------------------------------------------------
(* main.py: the Mistake endpoints as the threadpool runs them *)

\* Every handler is a plain `def`, which FastAPI runs on a worker thread, and
\* main.py takes no lock: a thread can be switched out between any two
\* statements.  Each action below is one access of a handler to the dict
\* `mistakes`, with the thread-local statements that follow it; `local` is
\* the handler's local variable.  A KeyError raised by `mistakes[id]` or by
\* `del mistakes[id]` escapes the handler and is answered 500.

Goto(t, pc, id, req, local) ==
    threads' = [threads EXCEPT ![t] = [pc |-> pc, id |-> id, req |-> req, local |-> local]]

At(t, pc) == threads[t].pc = pc

\* line 55: `if mistake.id in mistakes: raise HTTPException(400)`
create_mistake_check(t, body) ==
    /\ At(t, "idle")
    /\ IF ~MistakeBaseValid(body)
       THEN /\ resp' = Response("create_mistake", NoId, body, 422, None)
            /\ UNCHANGED <<mistakes, persons, now, lastWrite, deleted, threads, written>>
       ELSE \E uuid \in Uuid4(body, MistakeIds, Keys(mistakes)) :
            LET mistake == MistakeBase(body, uuid) IN
            IF MistakeIdExists(mistakes, mistake.id)
            THEN /\ resp' = Response("create_mistake", mistake.id, body, 400, None)
                 /\ UNCHANGED <<mistakes, persons, now, lastWrite, deleted, threads, written>>
            ELSE /\ Goto(t, "create_mistake_store", mistake.id, body, mistake)
                 /\ UNCHANGED <<mistakes, persons, now, resp, lastWrite, deleted, written>>

\* line 57: `mistakes[mistake.id] = MistakeRead(**mistake.model_dump())`
create_mistake_store(t) ==
    /\ At(t, "create_mistake_store")
    /\ \E t2 \in ClockAfter(now) :
          LET mistake == threads[t].local
              read == MistakeRead(ModelDump(mistake, MistakeBaseFields), now, t2)
          IN  /\ mistakes' = DictSet(mistakes, mistake.id, read)
              /\ now' = t2
              /\ written' = written \cup {read}
              /\ deleted' = deleted \ {mistake.id}
              /\ Goto(t, "create_mistake_return", mistake.id, threads[t].req, mistake)
              /\ UNCHANGED <<persons, resp, lastWrite>>

\* line 58: `return mistakes[mistake.id]`
create_mistake_return(t) ==
    /\ At(t, "create_mistake_return")
    /\ resp' = IF threads[t].id \notin Keys(mistakes)
               THEN Response("create_mistake", threads[t].id, threads[t].req, 500, None)
               ELSE Response("create_mistake", threads[t].id, threads[t].req, 201,
                             Lookup(mistakes, threads[t].id))
    /\ threads' = [threads EXCEPT ![t] = Idle]
    /\ UNCHANGED <<mistakes, persons, now, lastWrite, deleted, written>>

\* lines 69-84: `results = list(mistakes.values())` copies the dict's values
\* in one call; the filters then run on the thread's own list
list_mistakes_values(t, filters) ==
    /\ At(t, "idle")
    /\ resp' = Response("list_mistakes", NoId, filters, 200, ListMistakes(mistakes, filters))
    /\ UNCHANGED <<mistakes, persons, now, lastWrite, deleted, threads, written>>

\* line 88: `if mistakes_id not in mistakes: raise HTTPException(404)`
get_mistakes_check(t, mistakes_id) ==
    /\ At(t, "idle")
    /\ IF mistakes_id \notin Keys(mistakes)
       THEN /\ resp' = Response("get_mistakes", mistakes_id, None, 404, None)
            /\ UNCHANGED <<mistakes, persons, now, lastWrite, deleted, threads, written>>
       ELSE /\ Goto(t, "get_mistakes_return", mistakes_id, None, None)
            /\ UNCHANGED <<mistakes, persons, now, resp, lastWrite, deleted, written>>

\* line 90: `return mistakes[mistakes_id]`
get_mistakes_return(t) ==
    /\ At(t, "get_mistakes_return")
    /\ resp' = IF threads[t].id \notin Keys(mistakes)
               THEN Response("get_mistakes", threads[t].id, None, 500, None)
               ELSE Response("get_mistakes", threads[t].id, None, 200,
                             Lookup(mistakes, threads[t].id))
    /\ threads' = [threads EXCEPT ![t] = Idle]
    /\ UNCHANGED <<mistakes, persons, now, lastWrite, deleted, written>>

\* line 94: `if mistakes_id not in mistakes: raise HTTPException(404)`
update_mistake_check(t, mistakes_id, body) ==
    /\ At(t, "idle")
    /\ IF mistakes_id \notin Keys(mistakes)
       THEN /\ resp' = Response("update_mistake", mistakes_id, body, 404, None)
            /\ UNCHANGED <<mistakes, persons, now, lastWrite, deleted, threads, written>>
       ELSE /\ Goto(t, "update_mistake_read", mistakes_id, body, None)
            /\ UNCHANGED <<mistakes, persons, now, resp, lastWrite, deleted, written>>

\* lines 96-97: `stored = mistakes[mistakes_id].model_dump()` and the merge
\* of the patch into that local dict
update_mistake_read(t) ==
    /\ At(t, "update_mistake_read")
    /\ IF threads[t].id \notin Keys(mistakes)
       THEN /\ resp' = Response("update_mistake", threads[t].id, threads[t].req, 500, None)
            /\ threads' = [threads EXCEPT ![t] = Idle]
            /\ UNCHANGED <<mistakes, persons, now, lastWrite, deleted, written>>
       ELSE LET stored == DictUpdate(ModelDump(Lookup(mistakes, threads[t].id), MistakeReadFields),
                                     MistakeUpdateDump(threads[t].req))
            IN  /\ Goto(t, "update_mistake_store", threads[t].id, threads[t].req, stored)
                /\ UNCHANGED <<mistakes, persons, now, resp, lastWrite, deleted, written>>

\* line 98: `mistakes[mistakes_id] = MistakeRead(**stored)`
update_mistake_store(t) ==
    /\ At(t, "update_mistake_store")
    /\ LET stored == threads[t].local IN
       IF ~MistakeReadValid(stored)
       THEN /\ resp' = Response("update_mistake", threads[t].id, threads[t].req, 500, None)
            /\ threads' = [threads EXCEPT ![t] = Idle]
            /\ UNCHANGED <<mistakes, persons, now, lastWrite, deleted, written>>
       ELSE LET read == MistakeRead(stored, now, now) IN
            /\ mistakes' = DictSet(mistakes, threads[t].id, read)
            /\ written' = written \cup {read}
            /\ Goto(t, "update_mistake_return", threads[t].id, threads[t].req, None)
            /\ UNCHANGED <<persons, now, resp, lastWrite, deleted>>

\* line 99: `return mistakes[mistakes_id]`
update_mistake_return(t) ==
    /\ At(t, "update_mistake_return")
    /\ resp' = IF threads[t].id \notin Keys(mistakes)
               THEN Response("update_mistake", threads[t].id, threads[t].req, 500, None)
               ELSE Response("update_mistake", threads[t].id, threads[t].req, 200,
                             Lookup(mistakes, threads[t].id))
    /\ threads' = [threads EXCEPT ![t] = Idle]
    /\ UNCHANGED <<mistakes, persons, now, lastWrite, deleted, written>>

\* line 103: `if mistakes_id not in mistakes: raise HTTPException(404)`
delete_mistake_check(t, mistakes_id) ==
    /\ At(t, "idle")
    /\ IF mistakes_id \notin Keys(mistakes)
       THEN /\ resp' = Response("delete_mistake", mistakes_id, None, 404, None)
            /\ UNCHANGED <<mistakes, persons, now, lastWrite, deleted, threads, written>>
       ELSE /\ Goto(t, "delete_mistake_del", mistakes_id, None, None)
            /\ UNCHANGED <<mistakes, persons, now, resp, lastWrite, deleted, written>>

\* lines 105-106: `del mistakes[mistakes_id]` and `return None`
delete_mistake_del(t) ==
    /\ At(t, "delete_mistake_del")
    /\ IF threads[t].id \notin Keys(mistakes)
       THEN /\ resp' = Response("delete_mistake", threads[t].id, None, 500, None)
            /\ UNCHANGED <<mistakes, deleted>>
       ELSE /\ mistakes' = DictDel(mistakes, threads[t].id)
            /\ deleted' = deleted \cup {threads[t].id}
            /\ resp' = Response("delete_mistake", threads[t].id, None, 204, None)
    /\ threads' = [threads EXCEPT ![t] = Idle]
    /\ UNCHANGED <<persons, now, lastWrite, written>>

\* the requests the threads are given: two creates that carry the same id,
\* a patch, and the get, list and delete of the record they contend for
ThreadsCreateBodies == {WithId(BodyA, 1), WithId(BodyB, 1)}

ThreadsUpdateBodies == {[subject |-> "LSAT"]}

ThreadsIds == {body.id : body \in ThreadsCreateBodies}

NextThreads ==
    \/ \E t \in Threads, body \in ThreadsCreateBodies : create_mistake_check(t, body)
    \/ \E t \in Threads : create_mistake_store(t)
    \/ \E t \in Threads : create_mistake_return(t)
    \/ \E t \in Threads : list_mistakes_values(t, <<>>)
    \/ \E t \in Threads, id \in ThreadsIds : get_mistakes_check(t, id)
    \/ \E t \in Threads : get_mistakes_return(t)
    \/ \E t \in Threads, id \in ThreadsIds, body \in ThreadsUpdateBodies :
          update_mistake_check(t, id, body)
    \/ \E t \in Threads : update_mistake_read(t)
    \/ \E t \in Threads : update_mistake_store(t)
    \/ \E t \in Threads : update_mistake_return(t)
    \/ \E t \in Threads, id \in ThreadsIds : delete_mistake_check(t, id)
    \/ \E t \in Threads : delete_mistake_del(t)

SpecThreads == InitStores /\ [][NextThreads]_vars

---------------------------------------------------------------------------
(* Claims about the Mistake Store, checked under SpecMistake *)

\* the record a dict holds under each of its keys
Records(d) == Range(Values(d))

\* every key of d other than k holds in d2 the record it holds in d
OthersKept(d, d2, k) ==
    \A j \in Keys(d) \ {k} : j \in Keys(d2) /\ Lookup(d2, j) = Lookup(d, j)

\* C1: a create whose identifier, supplied by the caller or generated, is
\* already a key of the store answers 400 and leaves the store as it was.
C1_CreateExistingIdConflict ==
    [][resp'.op = "create_mistake" =>
       \A body \in MistakeCreateBodies :
          (MistakeBaseValid(body) /\ create_mistake(body) /\ resp'.id \in Keys(mistakes))
              => (resp'.status = 400 /\ mistakes' = mistakes)]_vars

C1_Witness ==
    /\ resp.op = "create_mistake"
    /\ resp.status = 400
    /\ resp.id \in Keys(mistakes)

\* C2: a create with a valid body whose identifier is not a key of the store
\* answers 201, adds exactly one record, under that identifier, and the
\* record stored and returned has created_at equal to updated_at.
C2_CreateFreshStampsEqual ==
    [][resp'.op = "create_mistake" =>
       \A body \in MistakeCreateBodies :
          (MistakeBaseValid(body) /\ create_mistake(body) /\ resp'.id \notin Keys(mistakes))
              => /\ resp'.status = 201
                 /\ Keys(mistakes') = Keys(mistakes) \cup {resp'.id}
                 /\ Len(mistakes') = Len(mistakes) + 1
                 /\ OthersKept(mistakes, mistakes', resp'.id)
                 /\ resp'.body = Lookup(mistakes', resp'.id)
                 /\ resp'.body.created_at = resp'.body.updated_at]_vars

\* C3: every update answered 200 leaves the stored record's updated_at equal
\* to the server clock at the update, whatever the patch holds.
C3_UpdateRefreshesUpdatedAt ==
    [][(resp'.op = "update_mistake" /\ resp'.status = 200) =>
       \A id \in MistakeIds, body \in MistakeUpdateBodies :
          update_mistake(id, body)
              => /\ Lookup(mistakes', id).updated_at = now'
                 /\ now' > Lookup(mistakes, id).created_at
                        => Lookup(mistakes', id).updated_at > Lookup(mistakes', id).created_at]_vars

\* C4: an update answered 200 changes, in the record under id, no text field
\* the patch does not hold, nor id, nor created_at, and changes no other
\* record of the store.
C4_UpdateFrame ==
    [][(resp'.op = "update_mistake" /\ resp'.status = 200) =>
       \A id \in MistakeIds, body \in MistakeUpdateBodies :
          update_mistake(id, body)
              => /\ Keys(mistakes') = Keys(mistakes)
                 /\ Len(mistakes') = Len(mistakes)
                 /\ OthersKept(mistakes, mistakes', id)
                 /\ \A f \in {"id", "created_at"} \cup (TextFields \ DOMAIN body) :
                        Lookup(mistakes', id)[f] = Lookup(mistakes, id)[f]]_vars

\* an update {subject: "LSAT"} went through on a record created earlier,
\* beside another record
C4_Witness ==
    /\ resp.op = "update_mistake"
    /\ resp.status = 200
    /\ DOMAIN resp.req = {"subject"}
    /\ resp.body.subject = "LSAT"
    /\ resp.body.created_at < now
    /\ Len(mistakes) = 2

\* C5: for every id stored, get answers 200 with the record the last
\* successful create or update of that id produced, and changes no store.
C5_GetReturnsLastWrite ==
    [][resp'.op = "get_mistakes" =>
       \A id \in Keys(mistakes) :
          get_mistakes(id)
              => /\ id \in DOMAIN lastWrite
                 /\ resp'.status = 200
                 /\ resp'.body = lastWrite[id]
                 /\ mistakes' = mistakes]_vars

\* a get of a record that was created, updated, deleted and created again
C5_Witness ==
    /\ resp.op = "get_mistakes"
    /\ resp.status = 200
    /\ resp.body.key_concept = "Reading Comprehension"
    /\ resp.body.subject = "LSAT"
    /\ resp.body.created_at < now

\* C6: a delete answered 204 removes the record under id and no other, and
\* a get of an id deleted and not created since answers 404.
C6_DeleteThenGetNotFound ==
    [][/\ resp'.op = "delete_mistake" =>
          \A id \in Keys(mistakes) :
             delete_mistake(id)
                 => /\ resp'.status = 204
                    /\ Keys(mistakes') = Keys(mistakes) \ {id}
                    /\ Len(mistakes') = Len(mistakes) - 1
                    /\ OthersKept(mistakes, mistakes', id)
       /\ resp'.op = "get_mistakes" =>
          \A id \in deleted : get_mistakes(id) => resp'.status = 404]_vars

C6_Witness ==
    /\ resp.op = "get_mistakes"
    /\ resp.id \in deleted
    /\ resp.status = 404
    /\ Len(mistakes) = 1

\* C8: list answers 200 with exactly the stored records that equal every
\* supplied filter on the named field, each once, and changes no store.
Matches(r, filters) == \A f \in DOMAIN filters : r[f] = filters[f]

C8_ListExactMatches ==
    [][resp'.op = "list_mistakes" =>
       \A filters \in MistakeFilters :
          list_mistakes(filters)
              => /\ resp'.status = 200
                 /\ Range(resp'.body) = {r \in Records(mistakes) : Matches(r, filters)}
                 /\ Len(resp'.body) = Cardinality(Range(resp'.body))
                 /\ mistakes' = mistakes]_vars

\* subject=lsat returned the one record with subject "lsat" and left out the
\* stored record with subject "LSAT"
C8_Witness ==
    /\ resp.op = "list_mistakes"
    /\ DOMAIN resp.req = {"subject"}
    /\ resp.req.subject = "lsat"
    /\ Len(resp.body) = 1
    /\ \E r \in Records(mistakes) : r.subject = "LSAT"

---------------------------------------------------------------------------
(* Claims about both stores, checked under Spec *)

\* C7: in either store, get, update (with a body that passes the request
\* validation) and delete of an identifier that is not a key of the store
\* answer 404 and leave the store as it was.
C7_AbsentIdNotFound ==
    [][/\ \A id \in MistakeIds \ Keys(mistakes) :
             /\ get_mistakes(id) => (resp'.status = 404 /\ mistakes' = mistakes)
             /\ delete_mistake(id) => (resp'.status = 404 /\ mistakes' = mistakes)
             /\ \A body \in StoresMistakeUpdateBodies :
                    update_mistake(id, body) => (resp'.status = 404 /\ mistakes' = mistakes)
       /\ \A id \in PersonIds \ Keys(persons) :
             /\ get_person(id) => (resp'.status = 404 /\ persons' = persons)
             /\ delete_person(id) => (resp'.status = 404 /\ persons' = persons)
             /\ \A body \in StoresPersonUpdateBodies :
                    (update_person(id, body) /\ PersonUpdateValid(body))
                        => (resp'.status = 404 /\ persons' = persons)]_vars

\* both stores hold a record, and an update and a delete of an absent id,
\* one in each store, were answered 404
C7_Witness ==
    /\ Len(mistakes) = 1
    /\ Len(persons) = 1
    /\ resp.status = 404
    /\ resp.op \in {"update_mistake", "update_person", "delete_mistake", "delete_person"}
    /\ resp.id \notin (IF resp.op \in {"update_mistake", "delete_mistake"}
                       THEN Keys(mistakes) ELSE Keys(persons))

---------------------------------------------------------------------------
(* Claims about the Person Store, checked under SpecPerson *)

\* the embedded collection of a stored Person
Embedded(p) == p.mistake

\* some embedded entry of p has the value v under attr
HasEntry(p, attr, v) ==
    \E i \in 1..Len(Embedded(p)) :
        attr \in DOMAIN Embedded(p)[i] /\ Embedded(p)[i][attr] = v

\* C9: list with grade_level=g alone, or with subject=s alone, answers 200
\* with exactly the stored Persons that have an embedded entry with that
\* value (so never a Person whose embedded collection is empty).
C9_NestedFiltersExistential ==
    [][resp'.op = "list_persons" =>
       \A filters \in PersonFilters :
          (list_persons(filters) /\ DOMAIN filters \in {{"grade_level"}, {"subject"}})
              => /\ resp'.status = 200
                 /\ Range(resp'.body) =
                        {p \in Records(persons) :
                            \A attr \in DOMAIN filters : HasEntry(p, attr, filters[attr])}]_vars

\* the entries stored are the entries supplied: as many, and equal on the
\* text fields and on the id where one was supplied
SameEntries(stored, supplied) ==
    /\ Len(stored) = Len(supplied)
    /\ \A i \in 1..Len(stored) :
          \A f \in TextFields \cup ({"id"} \cap DOMAIN supplied[i]) :
              stored[i][f] = supplied[i][f]

\* C10: an update answered 200 whose patch holds "mistakes" leaves the
\* embedded sequence equal to the one supplied; one whose patch holds no
\* embedded sequence leaves it as it was; id and created_at stay.
C10_UpdateReplacesEmbedded ==
    [][(resp'.op = "update_person" /\ resp'.status = 200) =>
       \A id \in PersonIds, body \in PersonUpdateBodies :
          update_person(id, body)
              => LET old == Lookup(persons, id)
                     new == Lookup(persons', id)
                 IN  /\ "mistakes" \in DOMAIN body
                            => SameEntries(Embedded(new), body.mistakes)
                     /\ DOMAIN body \cap {"mistakes", "mistake"} = {}
                            => Embedded(new) = Embedded(old)
                     /\ new.id = old.id
                     /\ new.created_at = old.created_at]_vars

---------------------------------------------------------------------------
(* Invariants of the two stores *)

\* C11: in every reachable state, after any sequence of creates, updates and
\* deletes, every record of the Mistake Store and of the Person Store has
\* created_at <= updated_at.
C11_CreatedNotAfterUpdated ==
    \A r \in Records(mistakes) \cup Records(persons) : r.created_at <= r.updated_at

\* both stores hold a record stamped across a clock step, and the last
\* request patched a record after its stamps were taken
C11_Witness ==
    /\ \E r \in Records(mistakes) : r.created_at < r.updated_at
    /\ \E r \in Records(persons) : r.created_at < r.updated_at
    /\ resp.op \in {"update_mistake", "update_person"}
    /\ resp.status = 200
    /\ resp.body.updated_at < now

\* the six text fields of a Mistake are present and not null
TextFieldsSet(r) == \A f \in TextFields : RequiredStrOk(r, f)

\* the patch explicitly sets one of the six text fields to null
SetsNull(body) == \E f \in DOMAIN body \cap TextFields : body[f] = None

\* C12: every record of the Mistake Store has its six text fields present
\* and not null, in every reachable state; and an update whose patch sets
\* one of them to null leaves the store, the record under id included, as
\* it was.
C12_TextFieldsNonNull ==
    /\ [](\A r \in Records(mistakes) : TextFieldsSet(r))
    /\ [][resp'.op = "update_mistake" =>
          \A id \in MistakeIds, body \in MistakeUpdateBodies :
             (update_mistake(id, body) /\ SetsNull(body))
                 => /\ mistakes' = mistakes
                    /\ \A r \in Records(mistakes') : TextFieldsSet(r)]_vars

\* a patch with a null subject was sent for a stored record
C12_Witness ==
    /\ resp.op = "update_mistake"
    /\ resp.id \in Keys(mistakes)
    /\ SetsNull(resp.req)
    /\ Lookup(mistakes, resp.id).subject # None

\* grade_level is absent, null or one of the declared tags
GradeLevelOk(r) ==
    "grade_level" \in DOMAIN r => (r.grade_level = None \/ r.grade_level \in GradeLevels)

\* the statuses under which pydantic's ValidationError reaches the caller:
\* 422 when the request body fails validation before the handler runs, 500
\* when the error is raised inside the handler
ValidationErrorStatus == {422, 500}

---------------------------------------------------------------------------
(* Claims about handlers that interleave, checked under SpecThreads *)

\* a whole record, as some thread assigned it into the dict under id
WholeRecord(r, id) == r \in written /\ r.id = id

\* C14: a get that interleaves with an update or a delete of the same record
\* answers 200 with a whole record, the one stored before or after the
\* update and never a mix of the two, or answers 404; a list that
\* interleaves with them answers 200 with whole records only.
C14_ReadsSeeWholeRecords ==
    /\ resp.op = "get_mistakes" =>
          /\ resp.status \in {200, 404}
          /\ resp.status = 200 => WholeRecord(resp.body, resp.id)
    /\ resp.op = "list_mistakes" =>
          /\ resp.status = 200
          /\ \A r \in Range(resp.body) : WholeRecord(r, r.id)

\* the record a create stores and returns holds the text the request carried
OwnRecord(r, body) == \A f \in TextFields : r[f] = body[f]

\* C15: of two creates that carry the same identifier and interleave between
\* the membership test and the insertion, at most one inserts: a create
\* never assigns under an identifier that is a key at that moment (it is the
\* one to answer 400), and a create answered 201 returns its own record.
C15_ConcurrentCreateOneWinner ==
    /\ [][\A t \in Threads :
            (At(t, "create_mistake_store") /\ create_mistake_store(t))
                => threads[t].id \notin Keys(mistakes)]_vars
    /\ []((resp.op = "create_mistake" /\ resp.status = 201)
             => OwnRecord(resp.body, resp.req))

\* C16: once a delete of an identifier has answered 204, the identifier is
\* not a key of the store until a create inserts under it again: an update
\* in flight, past its membership test or its read, never puts it back.
C16_DeleteIsFinal == deleted \cap Keys(mistakes) = {}

=============================================================================
